---- MODULE Spec2Model ----
(***************************************************************************)
(* Two-State Steam Calculator: the thermoState resolver (setState,         *)
(* computeProperties) and the main_window handlers (setUnits,              *)
(* calculateProperties) of src/ThermoStateCalc_appHW.py, with the widget   *)
(* defaults of src/ThermoStateCalcHW.py.                                   *)
(*                                                                         *)
(* Python floats are modelled as fixed-point integers in units of 1e-5     *)
(* (U), extended with NaN (what pyXSteam returns outside its range) and    *)
(* None (an attribute that was never assigned).                            *)
(***************************************************************************)
EXTENDS Integers, Sequences, FiniteSets, TLC

VARIABLES
    driver,     \* "object-SI", "object-EN": a thermoState driven directly by a
                \* caller working in that unit system; "app": the window
    obj,        \* the thermoState object driven directly
    calls,      \* number of setState calls made on obj
    last,       \* the last operation: its arguments and its outcome
    ui,         \* main_window: radio button, currentUnits, combos, line edits
    disp,       \* main_window: lblWarning, lblResultsS1/S2/Delta
    edits       \* number of user events handled by the window

vars == <<driver, obj, calls, last, ui, disp, edits>>

-----------------------------------------------------------------------------
(* Floats *)

\* one unit of the fixed-point grid is 1e-5
U == 10^5

None == [k |-> "none", v |-> 0]
NaN == [k |-> "nan", v |-> 0]
Num(n) == [k |-> "num", v |-> n]
IsNum(a) == a.k = "num"
IsSet(a) == a.k # "none"

\* Python comparisons: any comparison with NaN is False
FLt(a, b) == IsNum(a) /\ IsNum(b) /\ a.v < b.v
FGt(a, b) == IsNum(a) /\ IsNum(b) /\ a.v > b.v
FLe(a, b) == IsNum(a) /\ IsNum(b) /\ a.v <= b.v
FGe(a, b) == IsNum(a) /\ IsNum(b) /\ a.v >= b.v

Abs(n) == IF n < 0 THEN -n ELSE n

FSub(a, b) == IF IsNum(a) /\ IsNum(b) THEN Num(a.v - b.v) ELSE NaN
FAdd(a, b) == IF IsNum(a) /\ IsNum(b) THEN Num(a.v + b.v) ELSE NaN
FAbs(a) == IF IsNum(a) THEN Num(Abs(a.v)) ELSE NaN

\* a * m / U for a, m >= 0, without leaving 32 bits on the way
MulLo(al, ml) == (al * (ml \div 1000) * 10 + (al * (ml % 1000)) \div 100) \div 1000
MulPos(a, m) ==
    (a \div U) * (m \div U) * U + (a \div U) * (m % U) + (a % U) * (m \div U)
        + MulLo(a % U, m % U)
\* the product of two grid values, truncated to the grid
Mul(a, m) ==
    IF (a < 0) = (m < 0) THEN MulPos(Abs(a), Abs(m)) ELSE -MulPos(Abs(a), Abs(m))
FMul(a, b) == IF IsNum(a) /\ IsNum(b) THEN Num(Mul(a.v, b.v)) ELSE NaN

-----------------------------------------------------------------------------
(* The property oracle: pyXSteam's XSteam in UNIT_SYSTEM_MKS (bar, C, kJ/kg, *)
(* m^3/kg) or UNIT_SYSTEM_FLS (psi, F, btu/lb, ft^3/lb).  A sampled steam    *)
(* table: every function is the value at the nearest tabulated pressure at   *)
(* or below p; outside the validity range pyXSteam returns NaN.              *)

SITable == <<
    [p |-> 1000, tsat |-> 697000,
     uL |-> 2930000, uV |-> 238450000, hL |-> 2930000, hV |-> 251370000,
     sL |-> 10590, sV |-> 897490, vL |-> 100, vV |-> 12918000],
    [p |-> 100000, tsat |-> 9960600,
     uL |-> 41740000, uV |-> 250560000, hL |-> 41750000, hV |-> 267490000,
     sL |-> 130280, sV |-> 735880, vL |-> 104, vV |-> 169390],
    [p |-> 1000000, tsat |-> 17988000,
     uL |-> 76139000, uV |-> 258270000, hL |-> 76252000, hV |-> 277710000,
     sL |-> 213810, sV |-> 658500, vL |-> 113, vV |-> 19436],
    [p |-> 10000000, tsat |-> 31100000,
     uL |-> 139350000, uV |-> 254520000, hL |-> 140810000, hV |-> 272550000,
     sL |-> 336060, sV |-> 561600, vL |-> 145, vV |-> 1803],
    [p |-> 20000000, tsat |-> 36575000,
     uL |-> 178640000, uV |-> 229500000, hL |-> 182720000, hV |-> 241230000,
     sL |-> 401560, sV |-> 493140, vL |-> 204, vV |-> 587] >>

ENTable == <<
    [p |-> 100000, tsat |-> 10170000,
     uL |-> 6974000, uV |-> 104370000, hL |-> 6974000, hV |-> 110540000,
     sL |-> 13270, sV |-> 197760, vL |-> 1614, vV |-> 33349000],
    [p |-> 1469600, tsat |-> 21195000,
     uL |-> 18010000, uV |-> 107740000, hL |-> 18020000, hV |-> 115030000,
     sL |-> 31220, sV |-> 175610, vL |-> 1672, vV |-> 2680000],
    [p |-> 10000000, tsat |-> 32782000,
     uL |-> 29820000, uV |-> 110540000, hL |-> 29850000, hV |-> 118750000,
     sL |-> 47440, sV |-> 160320, vL |-> 1774, vV |-> 443400],
    [p |-> 30000000, tsat |-> 41735000,
     uL |-> 39290000, uV |-> 111800000, hL |-> 39390000, hV |-> 120330000,
     sL |-> 58830, sV |-> 151110, vL |-> 1890, vV |-> 154350] >>

Table(SI) == IF SI THEN SITable ELSE ENTable

\* the triple-point pressure (0.00611657 bar, 0.0887 psi): the lower end of
\* the saturation line and of the p-T regions
PTriple(SI) == IF SI THEN 612 ELSE 8871
\* the end of the saturation line (22.06395 + 0.001 MPa)
PSatMax(SI) == IF SI THEN 22064950 ELSE 320025000
\* 273.15 K: the p-T functions need T strictly above it
TFreeze(SI) == IF SI THEN 0 ELSE 32 * U
\* the p-T functions answer NaN on the saturation line itself (region 4),
\* which they detect by pressure: about this far from tsat in temperature
Region4Band == 2 * 100

RECURSIVE KnotFrom(_, _, _)
KnotFrom(tab, p, i) ==
    IF i = 1 \/ tab[i].p <= p THEN tab[i] ELSE KnotFrom(tab, p, i - 1)
\* the table row p falls in
Knot(SI, p) == KnotFrom(Table(SI), p, Len(Table(SI)))

SatInRange(SI, p) == IsNum(p) /\ p.v > PTriple(SI) /\ p.v < PSatMax(SI)

tsat_p(SI, p) == IF SatInRange(SI, p) THEN Num(Knot(SI, p.v).tsat) ELSE NaN

\* uL_p, uV_p, hL_p, hV_p, sL_p, sV_p, vL_p, vV_p by field name
sat_p(SI, f, p) == IF SatInRange(SI, p) THEN Num(Knot(SI, p.v)[f]) ELSE NaN

PTInRange(SI, p, t) ==
    /\ IsNum(p) /\ IsNum(t)
    /\ p.v > PTriple(SI)
    /\ t.v > TFreeze(SI)

\* u_pt, h_pt, s_pt, v_pt by field name ("u", "h", "s", "v"): liquid below
\* the saturation temperature, vapour above it, one fluid where there is no
\* saturation line
prop_pt(SI, f, p, t) ==
    IF ~PTInRange(SI, p, t) THEN NaN
    ELSE IF ~SatInRange(SI, p) THEN
        Num(CASE f = "u" -> 3 * t.v
              [] f = "h" -> 3 * t.v + p.v
              [] f = "s" -> t.v \div 100
              [] OTHER   -> 150 + t.v \div 100000)
    ELSE LET k == Knot(SI, p.v)
             dt == t.v - k.tsat
         IN IF Abs(dt) < Region4Band THEN NaN
            ELSE IF dt < 0 THEN
                Num(CASE f = "u" -> k.uL + 4 * dt
                      [] f = "h" -> k.hL + 4 * dt
                      [] f = "s" -> k.sL + dt \div 100
                      [] OTHER   -> k.vL)
            ELSE
                Num(CASE f = "u" -> k.uV + 2 * dt
                      [] f = "h" -> k.hV + 2 * dt
                      [] f = "s" -> k.sV + dt \div 200
                      [] OTHER   -> k.vV + dt \div 100)

-----------------------------------------------------------------------------
(* thermoState *)

Kinds == {"p", "t", "x", "u", "h", "v", "s"}

\* thermoState.__init__: steamSI is the unit system of self.steamTable
NewState ==
    [steamSI |-> TRUE, region |-> "saturated",
     p |-> None, t |-> None, v |-> None, u |-> None, h |-> None, s |-> None,
     x |-> None]

Regions == {"sub-cooled liquid", "two-phase", "super-heated vapor"}

\* prop.lower().strip() on the spellings the model draws
Normalize(prop) ==
    CASE prop = "P" -> "p"
      [] prop = " T " -> "t"
      [] prop = "X " -> "x"
      [] OTHER -> prop

\* the interpolation weighted from the vapor end: g - x * (g - f)
Interpolate_fromVapor(f, g, x) == FSub(g, FMul(x, FSub(g, f)))

\* the interpolation of computeProperties: f + x * (g - f)
Interpolate(f, g, x) == FAdd(f, FMul(x, FSub(g, f)))

\* computeProperties leaving the quality alone in the single-phase branch
computeProperties_keepsQuality(st) ==
    IF st.region = "two-phase" THEN
        [st EXCEPT
            !.u = Interpolate(sat_p(st.steamSI, "uL", st.p), sat_p(st.steamSI, "uV", st.p), st.x),
            !.h = Interpolate(sat_p(st.steamSI, "hL", st.p), sat_p(st.steamSI, "hV", st.p), st.x),
            !.s = Interpolate(sat_p(st.steamSI, "sL", st.p), sat_p(st.steamSI, "sV", st.p), st.x),
            !.v = Interpolate(sat_p(st.steamSI, "vL", st.p), sat_p(st.steamSI, "vV", st.p), st.x)]
    ELSE
        [st EXCEPT
            !.u = prop_pt(st.steamSI, "u", st.p, st.t),
            !.h = prop_pt(st.steamSI, "h", st.p, st.t),
            !.s = prop_pt(st.steamSI, "s", st.p, st.t),
            !.v = prop_pt(st.steamSI, "v", st.p, st.t)]

computeProperties(st) ==
    IF st.region = "two-phase" THEN
        [st EXCEPT
            !.u = Interpolate(sat_p(st.steamSI, "uL", st.p), sat_p(st.steamSI, "uV", st.p), st.x),
            !.h = Interpolate(sat_p(st.steamSI, "hL", st.p), sat_p(st.steamSI, "hV", st.p), st.x),
            !.s = Interpolate(sat_p(st.steamSI, "sL", st.p), sat_p(st.steamSI, "sV", st.p), st.x),
            !.v = Interpolate(sat_p(st.steamSI, "vL", st.p), sat_p(st.steamSI, "vV", st.p), st.x)]
    ELSE
        [st EXCEPT
            !.u = prop_pt(st.steamSI, "u", st.p, st.t),
            !.h = prop_pt(st.steamSI, "h", st.p, st.t),
            !.s = prop_pt(st.steamSI, "s", st.p, st.t),
            !.v = prop_pt(st.steamSI, "v", st.p, st.t),
            !.x = IF st.region = "super-heated vapor" THEN Num(U)
                  ELSE IF st.region = "sub-cooled liquid" THEN Num(0)
                  ELSE st.x]

\* the oracle queries computeProperties makes
computeQueries(st) == IF st.region = "two-phase" THEN 8 ELSE 4

PressureLimit == 300 * U
TemperatureLimit == 600 * U

\* checkPressure rejecting the upper bound itself
checkPressure_exclusive(pbar) ==
    IF FLe(pbar, Num(0)) THEN "Invalid pressure (must be > 0)"
    ELSE IF FGe(pbar, Num(PressureLimit)) THEN "Pressure above XSteam limit (~300)"
    ELSE ""

\* the ValueError checkPressure raises, "" when it returns
checkPressure(pbar) ==
    IF FLe(pbar, Num(0)) THEN "Invalid pressure (must be > 0)"
    ELSE IF FGt(pbar, Num(PressureLimit)) THEN "Pressure above XSteam limit (~300)"
    ELSE ""

\* the ValueError checkTemperature raises, "" when it returns
checkTemperature(tC) ==
    IF FLt(tC, Num(0)) THEN "Temperature below 0 is not supported"
    ELSE IF FGt(tC, Num(TemperatureLimit)) THEN "Temperature above 600 might crash XSteam"
    ELSE ""

\* abs(self.t - tsat) < 0.0001
Eps == 10

\* determineRegion with the two single-phase branches exchanged
determineRegion_exchanged(st, tsat) ==
    IF FLt(FAbs(FSub(st.t, tsat)), Num(Eps)) THEN
        [st EXCEPT !.region = "two-phase", !.x = Num(U \div 2)]
    ELSE IF FGt(st.t, tsat) THEN [st EXCEPT !.region = "sub-cooled liquid"]
    ELSE [st EXCEPT !.region = "super-heated vapor"]

\* determineRegion taking only T equal to Tsat(p) as two-phase
determineRegion_exact(st, tsat) ==
    IF st.t = tsat THEN
        [st EXCEPT !.region = "two-phase", !.x = Num(U \div 2)]
    ELSE IF FGt(st.t, tsat) THEN [st EXCEPT !.region = "super-heated vapor"]
    ELSE [st EXCEPT !.region = "sub-cooled liquid"]

\* "Determine region" of the p-t branch
determineRegion(st, tsat) ==
    IF FLt(FAbs(FSub(st.t, tsat)), Num(Eps)) THEN
        [st EXCEPT !.region = "two-phase", !.x = Num(U \div 2)]
    ELSE IF FGt(st.t, tsat) THEN [st EXCEPT !.region = "super-heated vapor"]
    ELSE [st EXCEPT !.region = "sub-cooled liquid"]

\* the p-t branch after the assignment of self.p and self.t
setStatePT(st) ==
    IF checkPressure(st.p) # "" THEN [st |-> st, err |-> checkPressure(st.p), q |-> 0]
    ELSE IF checkTemperature(st.t) # "" THEN
        [st |-> st, err |-> checkTemperature(st.t), q |-> 0]
    ELSE LET s3 == determineRegion(st, tsat_p(st.steamSI, st.p))
         IN [st |-> computeProperties(s3), err |-> "", q |-> 1 + computeQueries(s3)]

\* clampQuality without the upper clamp
clampQuality_lowerOnly(x) == IF FLt(x, Num(0)) THEN Num(0) ELSE x

\* "Clamp quality to [0, 1]"
clampQuality(x) ==
    LET x1 == IF FLt(x, Num(0)) THEN Num(0) ELSE x
    IN IF FGt(x1, Num(U)) THEN Num(U) ELSE x1

\* the p-x branch after the assignment of self.p and self.x
setStatePX(st) ==
    IF checkPressure(st.p) # "" THEN [st |-> st, err |-> checkPressure(st.p), q |-> 0]
    ELSE LET s2 == [st EXCEPT !.x = clampQuality(st.x), !.region = "two-phase",
                              !.t = tsat_p(st.steamSI, st.p)]
         IN IF checkTemperature(s2.t) # "" THEN
                [st |-> s2, err |-> checkTemperature(s2.t), q |-> 1]
            ELSE [st |-> computeProperties(s2), err |-> "", q |-> 1 + computeQueries(s2)]

NotImplemented == "Property combo not implemented yet"

\* setState assigning (val1, val2) to (p, t) or (p, x) whatever the order of
\* the property names
setState_ignoresOrder(st, prop1, prop2, val1, val2, SI) ==
    LET s1 == [st EXCEPT !.steamSI = SI]
        a == Normalize(prop1)
        b == Normalize(prop2)
    IN IF "p" \in {a, b} /\ "t" \in {a, b} THEN
           setStatePT([s1 EXCEPT !.p = val1, !.t = val2])
       ELSE IF "p" \in {a, b} /\ "x" \in {a, b} THEN
           setStatePX([s1 EXCEPT !.p = val1, !.x = val2])
       ELSE [st |-> s1, err |-> NotImplemented, q |-> 0]

\* thermoState.setState: the object as the call leaves it, the ValueError it
\* raised ("" when it returned) and the number of oracle queries it made
setState(st, prop1, prop2, val1, val2, SI) ==
    LET s1 == [st EXCEPT !.steamSI = SI]
        a == Normalize(prop1)
        b == Normalize(prop2)
    IN IF "p" \in {a, b} /\ "t" \in {a, b} THEN
           setStatePT(IF a = "p" THEN [s1 EXCEPT !.p = val1, !.t = val2]
                      ELSE [s1 EXCEPT !.p = val2, !.t = val1])
       ELSE IF "p" \in {a, b} /\ "x" \in {a, b} THEN
           setStatePX(IF a = "p" THEN [s1 EXCEPT !.p = val1, !.x = val2]
                      ELSE [s1 EXCEPT !.p = val2, !.x = val1])
       ELSE [st |-> s1, err |-> NotImplemented, q |-> 0]

-----------------------------------------------------------------------------
(* main_window *)

\* f"{val:.3f}" and f"{val:.5f}": the nearest multiple of step, a tie to even
RoundTo(n, step) ==
    LET a == Abs(n)
        q == a \div step
        r == a % step
        m == IF 2 * r > step \/ (2 * r = step /\ q % 2 = 1) THEN (q + 1) * step
             ELSE q * step
    IN IF n < 0 THEN -m ELSE m

\* the number a formatted float reads as; formatting raises TypeError on None
Fmt3(a) == IF IsNum(a) THEN Num(RoundTo(a.v, 100)) ELSE a
Fmt5(a) == IF IsNum(a) THEN Num(RoundTo(a.v, 1)) ELSE a

\* a QLineEdit text that float() rejects
BadText == [k |-> "text", v |-> 0]

Slots == 1..4

\* setupUi: the widgets as constructed; main_window.__init__: currentUnits
InitUi ==
    [rdoSI |-> TRUE, currentUnits |-> "SI",
     cmb |-> <<"p", "t", "p", "t">>,
     le |-> <<Num(1 * U), Num(100 * U), Num(1 * U), Num(200 * U)>>,
     lbl |-> <<"bar", "C", "bar", "C">>]

Placeholder(kind) ==
    [kind |-> kind, region |-> "", units |-> "",
     p |-> None, t |-> None, u |-> None, h |-> None, s |-> None, v |-> None,
     x |-> None]

\* setupUi: lblWarning and the three result labels as constructed
InitDisp ==
    [warn |-> "", s1 |-> Placeholder("State 1 results here"),
     s2 |-> Placeholder("State 2 results here"),
     delta |-> Placeholder("Differences here")]

\* self.pUnits, tUnits, hUnits, uUnits, sUnits, vUnits as setUnits assigns them
UnitLabel(SI, propType) ==
    CASE propType = "p" -> IF SI THEN "bar" ELSE "psi"
      [] propType = "t" -> IF SI THEN "C" ELSE "F"
      [] propType = "h" -> IF SI THEN "kJ/kg" ELSE "btu/lb"
      [] propType = "u" -> IF SI THEN "kJ/kg" ELSE "btu/lb"
      [] propType = "s" -> IF SI THEN "kJ/kg*C" ELSE "btu/lb*F"
      [] propType = "v" -> IF SI THEN "m^3/kg" ELSE "ft^3/lb"
      [] OTHER -> ""

\* UnitConversion.UC, scaled by U
bar_to_psi == 1450380
psi_to_bar == 6895
kJperkg_to_btuperlb == 42992
btuperlb_to_kJperkg == 232600
kJperkgC_to_btuperlbF == 23885
btuperlbF_to_kJperkgC == 418680
m3perkg_to_ft3perlb == 1601846
ft3perlb_to_m3perkg == 6243
C_to_F(val) == (val * 9) \div 5 + 32 * U
F_to_C(val) == ((val - 32 * U) * 5) \div 9

\* convertValue applying the SI-to-English law in both directions
convertValue_oneWay(val, propType, oldIsSI, newIsSI) ==
    IF oldIsSI = newIsSI THEN val
    ELSE IF propType = "p" THEN Mul(val, bar_to_psi)
    ELSE IF propType = "t" THEN C_to_F(val)
    ELSE IF propType \in {"h", "u"} THEN Mul(val, kJperkg_to_btuperlb)
    ELSE IF propType = "s" THEN Mul(val, kJperkgC_to_btuperlbF)
    ELSE IF propType = "v" THEN Mul(val, m3perkg_to_ft3perlb)
    ELSE val

convertValue(val, propType, oldIsSI, newIsSI) ==
    IF oldIsSI = newIsSI THEN val
    ELSE CASE propType = "p" ->
                  IF oldIsSI THEN Mul(val, bar_to_psi) ELSE Mul(val, psi_to_bar)
           [] propType = "t" -> IF oldIsSI THEN C_to_F(val) ELSE F_to_C(val)
           [] propType \in {"h", "u"} ->
                  IF oldIsSI THEN Mul(val, kJperkg_to_btuperlb)
                  ELSE Mul(val, btuperlb_to_kJperkg)
           [] propType = "s" ->
                  IF oldIsSI THEN Mul(val, kJperkgC_to_btuperlbF)
                  ELSE Mul(val, btuperlbF_to_kJperkgC)
           [] propType = "v" ->
                  IF oldIsSI THEN Mul(val, m3perkg_to_ft3perlb)
                  ELSE Mul(val, ft3perlb_to_m3perkg)
           [] OTHER -> val

\* updateLineEdit on slot i, whose text is a number
updateLineEdit(w, i, unitChange) ==
    LET SI == w.rdoSI
        val == IF unitChange THEN convertValue(w.le[i].v, w.cmb[i], ~SI, SI)
               ELSE w.le[i].v
    IN [w EXCEPT !.lbl[i] = UnitLabel(SI, w.cmb[i]), !.le[i] = Fmt3(Num(val))]

\* the four updateLineEdit calls in order; float() raises ValueError on a text
\* that is no number and the slot is left
RECURSIVE updateFrom(_, _, _)
updateFrom(w, i, unitChange) ==
    IF i > 4 THEN [ui |-> w, err |-> ""]
    ELSE IF ~IsNum(w.le[i]) THEN [ui |-> w, err |-> "could not convert string to float"]
    ELSE updateFrom(updateLineEdit(w, i, unitChange), i + 1, unitChange)

\* main_window.setUnits
setUnits(w) ==
    LET newUnits == IF w.rdoSI THEN "SI" ELSE "EN"
        unitChange == newUnits # w.currentUnits
    IN updateFrom([w EXCEPT !.currentUnits = newUnits], 1, unitChange)

AllSet(st) ==
    /\ IsSet(st.p) /\ IsSet(st.t) /\ IsSet(st.u) /\ IsSet(st.h)
    /\ IsSet(st.s) /\ IsSet(st.v) /\ IsSet(st.x)

\* main_window.makeLabel: the numbers the label shows, with their units
makeLabel(w, st) ==
    [kind |-> "state", region |-> st.region, units |-> w.currentUnits,
     p |-> Fmt3(st.p), t |-> Fmt3(st.t), u |-> Fmt3(st.u), h |-> Fmt3(st.h),
     s |-> Fmt3(st.s), v |-> Fmt5(st.v), x |-> Fmt3(st.x)]

\* makeDeltaLabel subtracting the wrong way round
makeDeltaLabel_reversed(w, s1, s2) ==
    [kind |-> "delta", region |-> "", units |-> w.currentUnits,
     p |-> Fmt3(FSub(s1.p, s2.p)), t |-> Fmt3(FSub(s1.t, s2.t)),
     u |-> Fmt3(FSub(s1.u, s2.u)), h |-> Fmt3(FSub(s1.h, s2.h)),
     s |-> Fmt3(FSub(s1.s, s2.s)), v |-> Fmt5(FSub(s1.v, s2.v)),
     x |-> Fmt3(FSub(s1.x, s2.x))]

\* main_window.makeDeltaLabel
makeDeltaLabel(w, s1, s2) ==
    [kind |-> "delta", region |-> "", units |-> w.currentUnits,
     p |-> Fmt3(FSub(s2.p, s1.p)), t |-> Fmt3(FSub(s2.t, s1.t)),
     u |-> Fmt3(FSub(s2.u, s1.u)), h |-> Fmt3(FSub(s2.h, s1.h)),
     s |-> Fmt3(FSub(s2.s, s1.s)), v |-> Fmt5(FSub(s2.v, s1.v)),
     x |-> Fmt3(FSub(s2.x, s1.x))]

DupS1 == "State 1: cannot specify the same property twice."
DupS2 == "State 2: cannot specify the same property twice."
Unhandled == "unhandled ValueError"

\* the try block displaying state 1 as soon as it is resolved
tryDisplay_eager(w, d, r1, r2) ==
    IF r1.err # "" THEN
        [disp |-> [d EXCEPT !.warn = r1.err], q |-> r1.q, s1 |-> r1.st, s2 |-> NewState]
    ELSE IF r2.err # "" THEN
        [disp |-> [d EXCEPT !.s1 = makeLabel(w, r1.st), !.warn = r2.err],
         q |-> r1.q + r2.q, s1 |-> r1.st, s2 |-> r2.st]
    ELSE
        [disp |-> [d EXCEPT !.s1 = makeLabel(w, r1.st), !.s2 = makeLabel(w, r2.st),
                            !.delta = makeDeltaLabel(w, r1.st, r2.st)],
         q |-> r1.q + r2.q, s1 |-> r1.st, s2 |-> r2.st]

\* the try block of calculateProperties once s1.setState has ended as r1 and
\* s2.setState, if it was reached, as r2: the displays after it, the number
\* of oracle queries made and the two states.  Formatting an attribute that
\* is None raises TypeError, which the second except clause reports.
tryDisplay(w, d, r1, r2) ==
    IF r1.err # "" THEN
        [disp |-> [d EXCEPT !.warn = r1.err], q |-> r1.q, s1 |-> r1.st, s2 |-> NewState]
    ELSE IF r2.err # "" THEN
        [disp |-> [d EXCEPT !.warn = r2.err], q |-> r1.q + r2.q, s1 |-> r1.st, s2 |-> r2.st]
    ELSE IF ~(AllSet(r1.st) /\ AllSet(r2.st)) THEN
        [disp |-> [d EXCEPT !.warn = "Unexpected error"], q |-> r1.q + r2.q,
         s1 |-> r1.st, s2 |-> r2.st]
    ELSE
        [disp |-> [d EXCEPT !.s1 = makeLabel(w, r1.st), !.s2 = makeLabel(w, r2.st),
                            !.delta = makeDeltaLabel(w, r1.st, r2.st)],
         q |-> r1.q + r2.q, s1 |-> r1.st, s2 |-> r2.st]

\* the try block of calculateProperties
tryBlock(w, d) ==
    tryDisplay(w, d,
        setState(NewState, w.cmb[1], w.cmb[2], w.le[1], w.le[2], w.currentUnits = "SI"),
        setState(NewState, w.cmb[3], w.cmb[4], w.le[3], w.le[4], w.currentUnits = "SI"))

\* what calculateProperties leaves when it ends before its try block
Ended(d, err) ==
    [disp |-> d, err |-> err, q |-> 0, made |-> 0, s1 |-> NewState, s2 |-> NewState]

\* what calculateProperties leaves when its try block has ended as r
Tried(r) ==
    [disp |-> r.disp, err |-> r.disp.warn, q |-> r.q, made |-> 2,
     s1 |-> r.s1, s2 |-> r.s2]

\* calculateProperties without the check for a repeated property
calculateProperties_unchecked(w, d) ==
    IF \E i \in Slots : ~IsNum(w.le[i]) THEN Ended([d EXCEPT !.warn = ""], Unhandled)
    ELSE Tried(tryBlock(w, [d EXCEPT !.warn = ""]))

\* calculateProperties refusing to run while an earlier warning is displayed
calculateProperties_latched(w, d) ==
    IF d.warn # "" THEN Ended(d, d.warn)
    ELSE IF \E i \in Slots : ~IsNum(w.le[i]) THEN Ended([d EXCEPT !.warn = ""], Unhandled)
    ELSE IF w.cmb[1] = w.cmb[2] THEN Ended([d EXCEPT !.warn = DupS1], DupS1)
    ELSE IF w.cmb[3] = w.cmb[4] THEN Ended([d EXCEPT !.warn = DupS2], DupS2)
    ELSE Tried(tryBlock(w, [d EXCEPT !.warn = ""]))

\* main_window.calculateProperties: the displays after it, what ended it
\* ("" when the results were displayed), the oracle queries made, the number
\* of thermoState objects constructed, and the two states
calculateProperties(w, d) ==
    IF \E i \in Slots : ~IsNum(w.le[i]) THEN Ended([d EXCEPT !.warn = ""], Unhandled)
    ELSE IF w.cmb[1] = w.cmb[2] THEN Ended([d EXCEPT !.warn = DupS1], DupS1)
    ELSE IF w.cmb[3] = w.cmb[4] THEN Ended([d EXCEPT !.warn = DupS2], DupS2)
    ELSE Tried(tryBlock(w, [d EXCEPT !.warn = ""]))

-----------------------------------------------------------------------------
(* The inputs drawn and the bounds *)

MaxCalls == 2
MaxEdits == 2

\* pressures: 0, 1, 250 (above the critical pressure in bar), 300, 300.0001
PVals == {0, 1 * U, 250 * U, 300 * U, 300 * U + 10}
\* temperatures: -0.001, 0, tsat(1 bar) = 99.606, 99.60605, 99.6061,
\* tsat(1 psi) = 101.7, 600, 600.001
TVals == {-100, 0, 9960600, 9960605, 9960610, 10170000, 10170005, 600 * U,
          600 * U + 100}
\* qualities: -1, 0.25, 2
XVals == {-U, U \div 4, 2 * U}

Supported(a, b) == {a, b} \in {{"p", "t"}, {"p", "x"}}

FullVals(a) ==
    CASE a = "p" -> PVals
      [] a = "t" -> TVals
      [] a = "x" -> XVals
      [] OTHER -> {2800 * U}

\* the values drawn for property a when given with property b, as the
\* first (pos = 1) or the second (pos = 2) of the pair
ValsOf(a, b, pos) ==
    IF Supported(a, b) THEN FullVals(a)
    ELSE IF a \in {"p", "t", "x"} THEN {pos * U}
    ELSE {2800 * U}

\* calls whose property names are not yet lower case and stripped
SpelledCalls ==
    { [prop1 |-> "P", prop2 |-> " T ", val1 |-> Num(1 * U), val2 |-> Num(600 * U)],
      [prop1 |-> " T ", prop2 |-> "P", val1 |-> Num(0), val2 |-> Num(1 * U)],
      [prop1 |-> "X ", prop2 |-> "P", val1 |-> Num(2 * U), val2 |-> Num(1 * U)] }

CallInputs ==
    SpelledCalls \cup
    UNION { { [prop1 |-> a, prop2 |-> b, val1 |-> Num(v1), val2 |-> Num(v2)] :
                v1 \in ValsOf(a, b, 1), v2 \in ValsOf(b, a, 2) } :
            a \in Kinds, b \in Kinds }

ObjectDrivers == {"object-SI", "object-EN"}

NoArgs == [prop1 |-> "", prop2 |-> "", val1 |-> None, val2 |-> None]

\* failed: some calculateProperties call of the run has ended in an error
NoLast ==
    [op |-> "init", arg |-> NoArgs, SI |-> TRUE, err |-> "", q |-> 0, made |-> 0,
     s1 |-> NewState, s2 |-> NewState, failed |-> FALSE]

-----------------------------------------------------------------------------
(* The thermoState object driven directly *)

\* obj.setState(prop1, prop2, val1, val2, SI); a ValueError it raises
\* reaches the caller, who keeps the object
SetStateCall ==
    /\ driver \in ObjectDrivers
    /\ calls < MaxCalls
    /\ \E c \in CallInputs :
          \E r \in {setState(obj, c.prop1, c.prop2, c.val1, c.val2, driver = "object-SI")} :
             /\ obj' = r.st
             /\ last' = [NoLast EXCEPT !.op = "setState", !.arg = c,
                                       !.SI = (driver = "object-SI"),
                                       !.err = r.err, !.q = r.q]
    /\ calls' = calls + 1
    /\ UNCHANGED <<driver, ui, disp, edits>>

-----------------------------------------------------------------------------
(* The window driven by its user *)

\* the texts the user types into a line edit
TextVals == {BadText, Num(0), Num(U \div 4), Num(9960605), Num(300 * U + 10)}
\* the combo items the user selects
ComboChoices == {"p", "t", "x", "h"}

\* what a handler that ran setUnits leaves behind
AfterSetUnits(w, op) ==
    \E r \in {setUnits(w)} :
       /\ ui' = r.ui
       /\ last' = [NoLast EXCEPT !.op = op, !.err = r.err,
                                 !.SI = (ui.currentUnits = "SI"),
                                 !.failed = last.failed]

\* rdoSI.clicked / rdoEnglish.clicked -> setUnits
ClickRadio ==
    /\ driver = "app"
    /\ edits < MaxEdits
    /\ \E si \in BOOLEAN : AfterSetUnits([ui EXCEPT !.rdoSI = si], "radio")
    /\ edits' = edits + 1
    /\ UNCHANGED <<driver, obj, calls, disp>>

\* cmbProp*.currentIndexChanged -> setUnits
ChangeCombo ==
    /\ driver = "app"
    /\ edits < MaxEdits
    /\ \E i \in Slots, k \in ComboChoices :
          /\ k # ui.cmb[i]
          /\ AfterSetUnits([ui EXCEPT !.cmb[i] = k], "combo")
    /\ edits' = edits + 1
    /\ UNCHANGED <<driver, obj, calls, disp>>

\* the user types into a line edit: no handler is connected
EditText ==
    /\ driver = "app"
    /\ edits < MaxEdits
    /\ \E i \in Slots, v \in TextVals :
          /\ v # ui.le[i]
          /\ ui' = [ui EXCEPT !.le[i] = v]
    /\ last' = [NoLast EXCEPT !.op = "edit", !.failed = last.failed]
    /\ edits' = edits + 1
    /\ UNCHANGED <<driver, obj, calls, disp>>

\* pbCalculate.clicked -> calculateProperties
Calculate ==
    /\ driver = "app"
    /\ \E r \in {calculateProperties(ui, disp)} :
          /\ disp' = r.disp
          /\ last' = [NoLast EXCEPT !.op = "calculate", !.err = r.err, !.q = r.q,
                                    !.made = r.made, !.s1 = r.s1, !.s2 = r.s2,
                                    !.SI = (ui.currentUnits = "SI"),
                                    !.failed = (last.failed \/ r.err # "")]
    /\ UNCHANGED <<driver, obj, calls, ui, edits>>

-----------------------------------------------------------------------------

Init ==
    /\ driver \in ObjectDrivers \cup {"app"}
    /\ obj = NewState
    /\ calls = 0
    /\ last = NoLast
    /\ ui = setUnits(InitUi).ui
    /\ disp = InitDisp
    /\ edits = 0

Next == SetStateCall \/ ClickRadio \/ ChangeCombo \/ EditText \/ Calculate

Spec == Init /\ [][Next]_vars

-----------------------------------------------------------------------------
(* Properties *)

\* the last operation was a setState call on obj with this unordered pair of
\* (normalised) property names
LastSetState(a, b) ==
    /\ last.op = "setState"
    /\ {Normalize(last.arg.prop1), Normalize(last.arg.prop2)} = {a, b}

\* p in (0, 300] and T in [0, 600]
PressureInBounds(p) == IsNum(p) /\ p.v > 0 /\ p.v <= PressureLimit
TemperatureInBounds(t) == IsNum(t) /\ t.v >= 0 /\ t.v <= TemperatureLimit

\* the attributes of a thermoState other than its steam table
Fields(st) == <<st.region, st.p, st.t, st.v, st.u, st.h, st.s, st.x>>

\* |T - Tsat(p)| > 1e-3
FarFromSaturation(st) ==
    FGt(FAbs(FSub(st.t, tsat_p(st.steamSI, st.p))), Num(100))

\* C1: after setState with the pair (p, t), p in (0, 300], T in [0, 600] and
\* |T - Tsat(p)| > 1e-3, the call has returned, the region is sub-cooled
\* liquid iff T < Tsat(p) and super-heated vapor iff T > Tsat(p), and the
\* quality is exactly 0.0 and 1.0 respectively.
C1_RegionBySaturation ==
    (/\ LastSetState("p", "t")
     /\ PressureInBounds(obj.p) /\ TemperatureInBounds(obj.t)
     /\ FarFromSaturation(obj))
    => LET tsat == tsat_p(obj.steamSI, obj.p)
       IN /\ last.err = ""
          /\ (obj.region = "sub-cooled liquid") <=> FLt(obj.t, tsat)
          /\ (obj.region = "super-heated vapor") <=> FGt(obj.t, tsat)
          /\ FLt(obj.t, tsat) => obj.x = Num(0)
          /\ FGt(obj.t, tsat) => obj.x = Num(U)

C1_Witness ==
    /\ LastSetState("p", "t")
    /\ PressureInBounds(obj.p) /\ TemperatureInBounds(obj.t)
    /\ FarFromSaturation(obj)
    /\ FLt(obj.t, tsat_p(obj.steamSI, obj.p))
    /\ obj.region = "sub-cooled liquid"
    /\ calls = 2

\* C2: after setState with the pair (p, x) and p in (0, 300], whatever x was
\* given, the call has returned, the region is two-phase and the quality is
\* in [0, 1].
C2_QualityClamped ==
    (LastSetState("p", "x") /\ PressureInBounds(obj.p))
    => /\ last.err = ""
       /\ obj.region = "two-phase"
       /\ FGe(obj.x, Num(0)) /\ FLe(obj.x, Num(U))

\* the quality given to the last call
GivenQuality ==
    IF Normalize(last.arg.prop1) = "x" THEN last.arg.val1 ELSE last.arg.val2

C2_Witness ==
    /\ LastSetState("p", "x") /\ PressureInBounds(obj.p)
    /\ FGt(GivenQuality, Num(U))
    /\ obj.x = Num(U)

\* C3: setState with the pair (p, t) passes validation iff p is in (0, 300]
\* and T is in [0, 600]; a rejection names a bound the input violates.
C3_BoundsValidation ==
    LastSetState("p", "t")
    => /\ (last.err = "") <=>
              (PressureInBounds(obj.p) /\ TemperatureInBounds(obj.t))
       /\ last.err \in {"", "Invalid pressure (must be > 0)",
                        "Pressure above XSteam limit (~300)",
                        "Temperature below 0 is not supported",
                        "Temperature above 600 might crash XSteam"}
       /\ last.err = "Invalid pressure (must be > 0)" => obj.p.v <= 0
       /\ last.err = "Pressure above XSteam limit (~300)" => obj.p.v > 300 * U
       /\ last.err = "Temperature below 0 is not supported" => obj.t.v < 0
       /\ last.err = "Temperature above 600 might crash XSteam" => obj.t.v > 600 * U

\* p = 300.0001 is rejected for the 300 limit
C3_Witness ==
    /\ LastSetState("p", "t")
    /\ obj.p = Num(300 * U + 10)
    /\ last.err = "Pressure above XSteam limit (~300)"

\* p = 300 with T = 0 or T = 600 is accepted
C3_AcceptsBounds ==
    /\ LastSetState("p", "t")
    /\ obj.p = Num(300 * U) /\ obj.t \in {Num(0), Num(600 * U)}
    /\ last.err = ""

\* the pressure and the temperature of obj, given in psi and F, in bar and C
PressureInBar(st) == Num(convertValue(st.p.v, "p", FALSE, TRUE))
TemperatureInC(st) == Num(convertValue(st.t.v, "t", FALSE, TRUE))

\* C4: a (p, t) input under the English unit system is accepted by setState
\* iff the same input converted to bar and C is within (0, 300] bar and
\* [0, 600] C, the bounds setState applies under SI.
C4_BoundsUnitScaled ==
    (LastSetState("p", "t") /\ ~obj.steamSI)
    => ((last.err = "") <=>
            (/\ PressureInBounds(PressureInBar(obj))
             /\ TemperatureInBounds(TemperatureInC(obj))))

\* a step of the thermoState object
SetStateStep == last'.op = "setState" /\ vars' # vars
\* a step of calculateProperties
CalculateStep == last'.op = "calculate" /\ vars' # vars

\* the two property kinds of state 1, or of state 2, are the same
DuplicateSelected(w) == w.cmb[1] = w.cmb[2] \/ w.cmb[3] = w.cmb[4]

\* the three result displays
Results(d) == <<d.s1, d.s2, d.delta>>

\* C5: a request whose two property kinds are identical ends in an error,
\* makes no oracle query, resolves no thermoState and produces no result:
\* calculateProperties constructs no thermoState, leaves the result displays
\* alone and warns of the duplicate; a direct setState call raises and leaves
\* the properties of the object as they were.
C5_DuplicateRejected ==
    [][ /\ (CalculateStep /\ DuplicateSelected(ui))
           => /\ last'.err # "" /\ last'.q = 0 /\ last'.made = 0
              /\ Results(disp') = Results(disp)
              /\ disp'.warn = last'.err \/ last'.err = Unhandled
              /\ (\A i \in Slots : IsNum(ui.le[i])) => last'.err \in {DupS1, DupS2}
        /\ (/\ SetStateStep
            /\ Normalize(last'.arg.prop1) = Normalize(last'.arg.prop2))
           => /\ last'.err # "" /\ last'.q = 0
              /\ Fields(obj') = Fields(obj) ]_vars

\* a duplicate was rejected after results had been displayed
C5_Witness ==
    /\ last.op = "calculate" /\ DuplicateSelected(ui)
    /\ last.err \in {DupS1, DupS2}
    /\ disp.s1.kind = "state"

\* a direct setState call with equal kinds on a resolved object
C5_WitnessDirect ==
    /\ last.op = "setState" /\ last.arg.prop1 = last.arg.prop2
    /\ last.err # "" /\ AllSet(obj)

\* C6: setState gives the same object and the same outcome when the two
\* (property, value) arguments are exchanged; every pair of kinds other than
\* {p, t} and {p, x} raises, queries nothing and assigns no property.
C6_UnorderedDispatch ==
    [][ SetStateStep
        => LET c == last'.arg
               a == Normalize(c.prop1)
               b == Normalize(c.prop2)
               r == setState(obj, c.prop2, c.prop1, c.val2, c.val1, last'.SI)
           IN /\ obj' = r.st /\ last'.err = r.err /\ last'.q = r.q
              /\ ~Supported(a, b)
                 => /\ last'.err = NotImplemented /\ last'.q = 0
                    /\ Fields(obj') = Fields(obj) ]_vars

\* (t, p) given in that order was resolved
C6_Witness ==
    /\ last.op = "setState"
    /\ last.arg.prop1 = "t" /\ last.arg.prop2 = "p"
    /\ last.err = "" /\ obj.p = last.arg.val2 /\ obj.t = last.arg.val1
    /\ obj.p # obj.t

\* temperature with specific enthalpy was refused
C6_WitnessRefused ==
    /\ last.op = "setState"
    /\ last.arg.prop1 = "t" /\ last.arg.prop2 = "h"
    /\ last.err = NotImplemented

\* calculateProperties has just displayed the states last.s1 and last.s2
Displayed == last.op = "calculate" /\ last.err = ""

PropertyNames == {"p", "t", "u", "h", "s", "v", "x"}

\* the difference the delta report is about
Difference(f) == FSub(last.s2[f], last.s1[f])

\* C7 as stated: every entry of the delta report equals s2's value minus
\* s1's value.
C7_DeltaExact ==
    Displayed => \A f \in PropertyNames : disp.delta[f] = Difference(f)

\* the smallest step a delta entry is displayed in: 0.001, and 0.00001 for
\* the specific volume
DisplayStep(f) == IF f = "v" THEN 1 ELSE 100

\* C7, amended: the delta report holds all seven properties, and every entry
\* is s2's value minus s1's value rounded to the displayed precision (three
\* decimals, five for the specific volume), whatever the regions of the two
\* states.
C7_DeltaRounded ==
    Displayed
    => /\ disp.delta.kind = "delta"
       /\ \A f \in PropertyNames :
             /\ IsSet(disp.delta[f])
             /\ IsNum(disp.delta[f]) <=> IsNum(Difference(f))
             /\ IsNum(disp.delta[f])
                => /\ disp.delta[f].v % DisplayStep(f) = 0
                   /\ 2 * Abs(disp.delta[f].v - Difference(f).v) <= DisplayStep(f)

\* two states in different regions, with a temperature difference that three
\* decimals do not hold
C7_Witness ==
    /\ Displayed
    /\ last.s1.region # last.s2.region
    /\ IsNum(Difference("t")) /\ Difference("t").v % 100 # 0
    /\ IsNum(Difference("u")) /\ Difference("u").v # 0

\* C8: calculateProperties writes the three result displays together, from
\* the two states it resolved, or writes none of them: when it ends in an
\* error the three displays are as before.
C8_DisplaysAllOrNothing ==
    [][ CalculateStep
        => /\ last'.err # "" => Results(disp') = Results(disp)
           /\ last'.err = ""
              => /\ last'.made = 2
                 /\ AllSet(last'.s1) /\ AllSet(last'.s2)
                 /\ disp'.s1 = makeLabel(ui, last'.s1)
                 /\ disp'.s2 = makeLabel(ui, last'.s2)
                 /\ disp'.delta.kind = "delta"
                 /\ disp'.warn = "" ]_vars

\* state 1 was resolved, state 2 was refused, and the displays still show an
\* earlier calculation
C8_Witness ==
    /\ last.op = "calculate"
    /\ last.err \notin {"", DupS1, DupS2, Unhandled}
    /\ AllSet(last.s1) /\ ~AllSet(last.s2)
    /\ disp.s1.kind = "state" /\ disp.s2.kind = "state" /\ disp.delta.kind = "delta"
    /\ disp.s1 # makeLabel(ui, last.s1)

\* C9: a setState call that returns leaves p, t, x, u, h, s, v all assigned,
\* the region one of the three, the quality in [0, 1], exactly 0.0 for a
\* sub-cooled liquid and exactly 1.0 for a super-heated vapor, also on an
\* object that was set before.
C9_ResolvedState ==
    (last.op = "setState" /\ last.err = "")
    => /\ AllSet(obj)
       /\ obj.region \in Regions
       /\ FGe(obj.x, Num(0)) /\ FLe(obj.x, Num(U))
       /\ obj.region = "sub-cooled liquid" => obj.x = Num(0)
       /\ obj.region = "super-heated vapor" => obj.x = Num(U)

\* a second call on the same object, resolved as a super-heated vapor
C9_Witness ==
    /\ last.op = "setState" /\ last.err = ""
    /\ calls = 2
    /\ obj.region = "super-heated vapor" /\ obj.x = Num(U)
    /\ IsNum(obj.u)

NoneSet(st) ==
    /\ ~IsSet(st.p) /\ ~IsSet(st.t) /\ ~IsSet(st.u) /\ ~IsSet(st.h)
    /\ ~IsSet(st.s) /\ ~IsSet(st.v) /\ ~IsSet(st.x)

\* C10: the seven properties of a thermoState are all assigned or all
\* unassigned, also after a setState call that raised.
C10_AllOrNothing ==
    driver \in ObjectDrivers => (AllSet(obj) \/ NoneSet(obj))

\* the step has ended as r, the outcome of the same call made on the
\* application as it is constructed: the same error or none, the same oracle
\* queries and states, and on success the same displays
AsFromInitial(r) ==
    /\ last'.err = r.err /\ last'.q = r.q /\ last'.made = r.made
    /\ last'.s1 = r.s1 /\ last'.s2 = r.s2
    /\ r.err = "" => /\ Results(disp') = Results(r.disp)
                     /\ disp'.warn = r.disp.warn

\* C11: whatever calculateProperties calls went before, failed ones
\* included, a call ends as the same call ends on the application in its
\* initial state: it succeeds on the same inputs and displays the same two
\* states and the same delta, so its result depends only on the current
\* selectors, values and unit system.
C11_IndependentOfHistory ==
    [][ CalculateStep => AsFromInitial(calculateProperties(ui, InitDisp)) ]_vars

\* a calculation has succeeded after an earlier one had failed
C11_Witness ==
    /\ last.op = "calculate" /\ last.err = ""
    /\ last.failed
    /\ disp.s1.kind = "state" /\ disp.delta.kind = "delta"

\* v of kind k converted from SI to English and back
RoundTrip(v, k) == convertValue(convertValue(v, k, TRUE, FALSE), k, FALSE, TRUE)

\* a is v within one part in ten thousand and six steps of the grid (a
\* product is truncated to the grid before the inverse factor, at most
\* 4.1868, multiplies it)
WithinTolerance(a, v) == Abs(a - v) <= Abs(v) \div 10000 + 6

\* C12: every value an input field holds in SI, read as any of the seven
\* property kinds, comes back within tolerance when convertValue takes it
\* to English and back; a quality comes back unchanged for every pair of
\* unit systems, and any kind comes back unchanged when the old and the new
\* unit system are the same.
C12_RoundTrip ==
    ui.currentUnits = "SI"
    => \A i \in Slots :
          IsNum(ui.le[i])
          => \A k \in PropertyNames :
                /\ WithinTolerance(RoundTrip(ui.le[i].v, k), ui.le[i].v)
                /\ \A a \in BOOLEAN :
                      /\ convertValue(ui.le[i].v, k, a, a) = ui.le[i].v
                      /\ \A b \in BOOLEAN :
                            convertValue(ui.le[i].v, "x", a, b) = ui.le[i].v

\* the window was switched to English and back: the four fields hold their
\* first values again, one of them a value the round trip of convertValue
\* returns only within the tolerance
C12_Witness ==
    /\ driver = "app" /\ last.op = "radio" /\ edits = 2
    /\ ui.currentUnits = "SI" /\ ~last.SI
    /\ ui.le = setUnits(InitUi).ui.le
    /\ \E i \in Slots :
          /\ ui.cmb[i] \in {"p", "t"}
          /\ RoundTrip(ui.le[i].v, ui.cmb[i]) # ui.le[i].v

\* |T - Tsat(p)| < 1e-4 in the working units of the object
NearSaturation(st) ==
    FLt(FAbs(FSub(st.t, tsat_p(st.steamSI, st.p))), Num(Eps))

\* the value midway between the saturated liquid's and the saturated
\* vapor's at the pressure of st
Midway(st, fL, fV) ==
    IF IsNum(sat_p(st.steamSI, fL, st.p))
    THEN Num(sat_p(st.steamSI, fL, st.p).v
             + (sat_p(st.steamSI, fV, st.p).v - sat_p(st.steamSI, fL, st.p).v) \div 2)
    ELSE NaN

\* the p-T oracle query at the state of st
DirectQuery(st, f) == prop_pt(st.steamSI, f, st.p, st.t)

\* C13: after setState with the pair (p, t) has passed the bound checks,
\* when |T - Tsat(p)| < 1e-4 in the working units (bar and C, or psi and F:
\* the same 1e-4) the region is two-phase, the quality is exactly 0.5, and
\* u, h, s, v are the values midway between saturated liquid and vapor,
\* obtained by the eight saturation queries and not by p-T queries.
C13_TwoPhaseAtSaturation ==
    (LastSetState("p", "t") /\ last.err = "" /\ NearSaturation(obj))
    => /\ obj.region = "two-phase"
       /\ obj.x = Num(U \div 2)
       /\ obj.u = Midway(obj, "uL", "uV") /\ obj.h = Midway(obj, "hL", "hV")
       /\ obj.s = Midway(obj, "sL", "sV") /\ obj.v = Midway(obj, "vL", "vV")
       /\ last.q = 1 + 8

\* English units, T above Tsat(p) by less than 1e-4 F: two-phase, and the
\* enthalpy is not what the p-T query returns
C13_Witness ==
    /\ LastSetState("p", "t") /\ last.err = "" /\ ~obj.steamSI
    /\ NearSaturation(obj) /\ FGt(obj.t, tsat_p(obj.steamSI, obj.p))
    /\ obj.region = "two-phase" /\ obj.x = Num(U \div 2)
    /\ IsNum(obj.h) /\ obj.h # DirectQuery(obj, "h")

\* SI units, T above Tsat(p) by exactly 1e-4 C: not two-phase
C13_WitnessOutside ==
    /\ LastSetState("p", "t") /\ last.err = "" /\ obj.steamSI
    /\ FSub(obj.t, tsat_p(obj.steamSI, obj.p)) = Num(Eps)
    /\ obj.region = "super-heated vapor"

\* val is the saturated-liquid value L plus x times the step to the
\* saturated-vapor value V: L itself at x = 0, V itself at x = 1, and never
\* outside the two.  Where the oracle has no saturation values (NaN, above
\* the critical pressure) val is NaN as well.
Mixes(val, L, V, x) ==
    IF IsNum(L) /\ IsNum(V) /\ IsNum(x) THEN
        /\ val = Num(L.v + Mul(x.v, V.v - L.v))
        /\ x = Num(0) => val = L
        /\ x = Num(U) => val = V
        /\ (FLe(L, val) /\ FLe(val, V)) \/ (FLe(V, val) /\ FLe(val, L))
    ELSE val = NaN

\* u, h, s, v of st are mixed from the saturation values at its pressure
Interpolated(st) ==
    /\ FGe(st.x, Num(0)) /\ FLe(st.x, Num(U))
    /\ Mixes(st.u, sat_p(st.steamSI, "uL", st.p), sat_p(st.steamSI, "uV", st.p), st.x)
    /\ Mixes(st.h, sat_p(st.steamSI, "hL", st.p), sat_p(st.steamSI, "hV", st.p), st.x)
    /\ Mixes(st.s, sat_p(st.steamSI, "sL", st.p), sat_p(st.steamSI, "sV", st.p), st.x)
    /\ Mixes(st.v, sat_p(st.steamSI, "vL", st.p), sat_p(st.steamSI, "vV", st.p), st.x)

\* val lies between L and V
Between(val, L, V) ==
    (FLe(L, val) /\ FLe(val, V)) \/ (FLe(V, val) /\ FLe(val, L))

C14_WitnessVapor ==
    /\ LastSetState("p", "x") /\ last.err = "" /\ obj.region = "two-phase"
    /\ FGt(GivenQuality, Num(U)) /\ obj.x = Num(U)
    /\ IsNum(obj.h) /\ obj.h = sat_p(obj.steamSI, "hV", obj.p)
    /\ obj.h # sat_p(obj.steamSI, "hL", obj.p)

\* the window has displayed a two-phase state resolved from (p, t)
C14_WitnessDisplayed ==
    /\ Displayed /\ last.s1.region = "two-phase"
    /\ ui.cmb[1] = "p" /\ ui.cmb[2] = "t"
    /\ last.s1.x = Num(U \div 2) /\ IsNum(last.s1.u)

\* (p, x) at an accepted pressure above the critical pressure: two-phase
\* with no saturation values, and u, h, s, v are NaN
C14_WitnessNoSaturation ==
    /\ LastSetState("p", "x") /\ last.err = "" /\ obj.region = "two-phase"
    /\ PressureInBounds(obj.p)
    /\ sat_p(obj.steamSI, "uL", obj.p) = NaN
    /\ obj.u = NaN /\ obj.h = NaN /\ obj.s = NaN /\ obj.v = NaN

\* a step of setUnits, run by a radio button or by a property selector
SetUnitsStep == last'.op \in {"radio", "combo"} /\ vars' # vars

\* the step found the selected unit system changed
Toggled == ui'.currentUnits # ui.currentUnits

\* the step has converted the value of field i to the new unit system
Converted(i) ==
    /\ IsNum(ui.le[i])
    /\ ui'.le[i] = Fmt3(Num(convertValue(ui.le[i].v, ui'.cmb[i],
                                         ui.currentUnits = "SI",
                                         ui'.currentUnits = "SI")))

\* the step has left the value of field i in the unit system it was in
Unconverted(i) ==
    \/ ui'.le[i] = ui.le[i]
    \/ IsNum(ui.le[i]) /\ ui'.le[i] = Fmt3(ui.le[i])

\* C15: after every setUnits call currentUnits is the selected radio button;
\* a call that finds the unit system toggled converts all four input fields
\* or none of them, also when it aborts on a text that is no number, and a
\* call without a toggle converts none.
C15_UnitsConsistent ==
    [][ SetUnitsStep
        => /\ ui'.currentUnits = (IF ui'.rdoSI THEN "SI" ELSE "EN")
           /\ Toggled => \/ \A i \in Slots : Converted(i)
                         \/ \A i \in Slots : Unconverted(i)
           /\ ~Toggled => \A i \in Slots : Unconverted(i) ]_vars

=============================================================================
